---- MODULE Spec2Model ----
(***************************************************************************)
(* State machine of the Pinnacle 100 out-of-box demo (main.c): the control *)
(* task that runs main() and the state functions, and the contexts that    *)
(* run beside it (BLE service events, shell commands, LTE events, the      *)
(* keep-alive timer, sensor producers, the AWS disconnect callback).       *)
(*                                                                         *)
(* The control task yields where the code blocks or calls the network:     *)
(* k_sem_take, Framework_Receive, awsGetServerAddr, awsConnect and the     *)
(* publish calls.  Between two such points its code is one step.  The      *)
(* other contexts' handlers are one step each.                             *)
(***************************************************************************)
EXTENDS Integers, Sequences, FiniteSets, TLC

(***************************************************************************)
(* Bounds of the model.                                                    *)
(***************************************************************************)
\* Capacity of awsQ in the model (K_MSGQ_DEFINE gives it 16 entries).
AwsQCapacity == 2
\* Stand-in for AWS_CLIENT_CERT_MAX_LENGTH / AWS_CLIENT_KEY_MAX_LENGTH.
CredMaxLength == 1
\* Largest CONFIG_CLOUD_QUEUE_SIZE and CONFIG_CLOUD_PURGE_THRESHOLD tried.
MaxCloudQueueSize == 4
MaxCloudPurgeThreshold == 2
\* Messages the producers of cloudQ send in a run, at most.
MaxInjected == 5

(***************************************************************************)
(* Program constants.                                                      *)
(***************************************************************************)
APP_ERR_NOT_READY == -1
APP_ERR_COMMISSION_DISALLOWED == -2
APP_ERR_CRED_TOO_LARGE == -3
APP_ERR_UNKNOWN_CRED == -4
APP_ERR_READ_CERT == -5
APP_ERR_READ_KEY == -6
\* -EINVAL, the value rc holds in awsMsgHandler when nothing was published.
EINVAL_RC == -22

CREDENTIAL_TYPE == {"CREDENTIAL_CERT", "CREDENTIAL_KEY"}
\* What a caller can pass as enum CREDENTIAL_TYPE (an int in C).
CredentialArgs == CREDENTIAL_TYPE \cup {"CREDENTIAL_OTHER"}
CredentialSizes == {CredMaxLength, CredMaxLength + 1}
\* Results of aws_svc_save_clear_settings(true) and of awsSetCredentials().
SaveResults == {0, EINVAL_RC}

app_state_function_t ==
    {"appStateStartup", "appStateCommissionDevice", "appStateWaitForLte",
     "appStateLteConnectedAws", "appStateAwsResolveServer",
     "appStateAwsConnect", "appStateAwsInitShadow",
     "appStateAwsSendSensorData", "appStateAwsDisconnect"}

aws_status ==
    {"AWS_STATUS_NOT_PROVISIONED", "AWS_STATUS_DISCONNECTED",
     "AWS_STATUS_CONNECTING", "AWS_STATUS_CONNECTED",
     "AWS_STATUS_CONNECTION_ERR"}

DataMsgCodes == {"FMC_BL654_SENSOR_EVENT", "FMC_AWS_KEEP_ALIVE"}
SentinelMsgCodes == {"FMC_AWS_DECOMMISSION", "FMC_AWS_DISCONNECTED"}
FwkMsgCode == DataMsgCodes \cup SentinelMsgCodes

\* Where main() can fail, or "none".
InitFailures == {"nvInit", "lteInit", "awsInit", "aws_svc_init", "none"}

VARIABLES
    appState,            \* static app_state_function_t appState
    pc,                  \* where the control task is
    pMsg,                \* the message awsMsgHandler holds ("NULL": none)
    msgsHeld,            \* buffers awsMsgHandler received from the queue
                         \* less those it gave to BufferPool_Free
    appReady, commissioned, allowCommissioning, devCertSet, devKeySet,
    initShadow, resolveAwsServer,
    rx_cert_sem, lte_ready_sem,   \* binary semaphores (count 0 or 1)
    awsQ,                \* the AWS message queue
    awsKeepAliveTimer,   \* TRUE while the one-shot timer is running
    nvCommissioned,      \* the commissioned flag in NV storage
    certStored, keyStored,        \* aws_svc_client_{cert,key}_is_stored()
    lteReady,            \* lteIsReady()
    awsConn,             \* awsConnected()
    awsStatus,           \* what aws_svc_set_status reported last
    \* history variables
    certAccepts, keyAccepts,      \* submissions of the kind that succeeded
                                  \* since boot / the last decommission(),
                                  \* counted up to 2
    recovery,            \* "failed" after a failed publish, "disconnected"
                         \* once appStateAwsDisconnect ran after it
    behindLeft,          \* messages that were queued behind the failed
                         \* one and have not been dequeued yet
    scenarioB,           \* boot was commissioned with credentials and
                         \* nothing has failed or interfered since
    \* the second application of the repository (the MQTT main.c)
    car_appState,        \* static app_state_function_t appState
    car_pc,              \* where its control task is
    car_appReady,        \* static bool appReady
    car_lte_ready_sem,   \* K_SEM_DEFINE(lte_ready_sem, 0, 1)
    car_lteReady,        \* lteIsReady()
    cloudQ,              \* the cloud message queue
    flushed,             \* what cloud_fifo_monitor_isr reported last
    CONFIG_CLOUD_QUEUE_SIZE, CONFIG_CLOUD_PURGE_THRESHOLD,
                         \* the build's configuration, fixed in a run
    \* history variables of the second application
    injected,            \* messages the producers sent to cloudQ
    dropped,             \* those of them a full queue refused
    flushedTotal,        \* sum of the counts the guard reported
    sinceCheck           \* messages sent since the guard ran last

ctlVars == <<appState, pc, pMsg>>
flagVars == <<appReady, commissioned, allowCommissioning, devCertSet,
              devKeySet, initShadow, resolveAwsServer>>
osVars == <<rx_cert_sem, lte_ready_sem, awsQ, awsKeepAliveTimer>>
envVars == <<nvCommissioned, certStored, keyStored, lteReady, awsConn,
             awsStatus>>
histVars == <<certAccepts, keyAccepts, recovery, behindLeft, scenarioB>>
carVars == <<car_appState, car_pc, car_appReady, car_lte_ready_sem,
             car_lteReady, cloudQ, flushed, CONFIG_CLOUD_QUEUE_SIZE,
             CONFIG_CLOUD_PURGE_THRESHOLD, injected, dropped, flushedTotal,
             sinceCheck>>
poolVars == <<msgsHeld>>
vars == <<ctlVars, poolVars, flagVars, osVars, envVars, histVars, carVars>>

(***************************************************************************)
(* Helpers.                                                                *)
(***************************************************************************)
IsPrefix(s, t) == Len(s) <= Len(t) /\ SubSeq(t, 1, Len(s)) = s

\* A send that makes room on a full queue by discarding the oldest entry.
Framework_Send_overwriteOldest(q, code) ==
    IF Len(q) < AwsQCapacity THEN Append(q, code)
    ELSE Append(Tail(q), code)

\* k_msgq_put with K_NO_WAIT, as the framework's send does: a full queue
\* drops the new message.
Framework_Send(q, code) ==
    IF Len(q) < AwsQCapacity THEN Append(q, code) ELSE q

areCertsSet == devCertSet /\ devKeySet

\* setAwsCredentials(): the return code and the flags it leaves, given the
\* result of awsSetCredentials().
setAwsCredentials(loadRc) ==
    IF ~certStored
    THEN [rc |-> APP_ERR_READ_CERT, cert |-> devCertSet, key |-> devKeySet]
    ELSE IF ~keyStored
    THEN [rc |-> APP_ERR_READ_KEY, cert |-> devCertSet, key |-> devKeySet]
    ELSE [rc |-> loadRc, cert |-> TRUE, key |-> TRUE]

\* The second application before its main() has run, with the
\* configuration cfg = <<queue size, purge threshold>>.
car_Init(cfg) ==
    /\ car_appState = "NULL"
    /\ car_pc = "boot"
    /\ car_appReady = FALSE
    /\ car_lte_ready_sem = 0
    /\ car_lteReady = FALSE
    /\ cloudQ = <<>>
    /\ flushed = 0
    /\ CONFIG_CLOUD_QUEUE_SIZE = cfg[1]
    /\ CONFIG_CLOUD_PURGE_THRESHOLD = cfg[2]
    /\ injected = 0
    /\ dropped = 0
    /\ flushedTotal = 0
    /\ sinceCheck = 0

\* The out-of-box demo before its main() has run, with what NV storage
\* holds: stored = <<commissioned flag, certificate, key>>.
oob_Init(stored) ==
    /\ appState = "NULL"
    /\ pc = "boot"
    /\ pMsg = "NULL"
    /\ msgsHeld = 0
    /\ appReady = FALSE
    /\ commissioned = FALSE
    /\ allowCommissioning = FALSE
    /\ devCertSet = FALSE
    /\ devKeySet = FALSE
    /\ initShadow = TRUE
    /\ resolveAwsServer = TRUE
    /\ rx_cert_sem = 0
    /\ lte_ready_sem = 0
    /\ awsQ = <<>>
    /\ awsKeepAliveTimer = FALSE
    /\ nvCommissioned = stored[1]
    /\ certStored = stored[2]
    /\ keyStored = stored[3]
    /\ lteReady = FALSE
    /\ awsConn = FALSE
    /\ awsStatus = "NULL"
    /\ certAccepts = 0
    /\ keyAccepts = 0
    /\ recovery = "none"
    /\ behindLeft = 0
    /\ scenarioB = (nvCommissioned /\ certStored /\ keyStored)

Init ==
    /\ \E stored \in BOOLEAN \X BOOLEAN \X BOOLEAN : oob_Init(stored)
    /\ car_Init(<<MaxCloudQueueSize, MaxCloudPurgeThreshold>>)

\* The second application alone, under every configuration tried.
car_Configs == (1..MaxCloudQueueSize) \X (0..MaxCloudPurgeThreshold)

InitCloud ==
    /\ oob_Init(<<FALSE, FALSE, FALSE>>)
    /\ \E cfg \in car_Configs : car_Init(cfg)

(***************************************************************************)
(* The control task: main() and the state functions.                       *)
\* main() with appReady set before the initializations.
main_readyFirst(fail) ==
    /\ pc = "boot"
    /\ appReady' = TRUE
    /\ IF fail = "none"
       THEN /\ pc' = "loop"
            /\ appState' = "appStateStartup"
       ELSE /\ pc' = "exit"
            /\ UNCHANGED <<appState>>
    /\ commissioned' = IF fail = "nvInit" THEN commissioned ELSE nvCommissioned
    /\ IF fail = "none"
       THEN /\ awsStatus' = IF nvCommissioned THEN "AWS_STATUS_DISCONNECTED"
                                             ELSE "AWS_STATUS_NOT_PROVISIONED"
       ELSE UNCHANGED <<awsStatus>>
    /\ scenarioB' = (scenarioB /\ fail = "none")
    /\ UNCHANGED <<pMsg, allowCommissioning, devCertSet, devKeySet,
                   initShadow, resolveAwsServer, osVars, nvCommissioned,
                   certStored, keyStored, lteReady, awsConn, certAccepts, keyAccepts, recovery, behindLeft>>
    /\ UNCHANGED <<poolVars, carVars>>

(***************************************************************************)
\* main(), up to the first call of appState().  A failed initialization
\* leaves through the exit label.
main(fail) ==
    /\ pc = "boot"
    /\ IF fail = "none"
       THEN /\ pc' = "loop"
            /\ appState' = "appStateStartup"
            /\ appReady' = TRUE
       ELSE /\ pc' = "exit"
            /\ UNCHANGED <<appState, appReady>>
    /\ commissioned' = IF fail = "nvInit" THEN commissioned ELSE nvCommissioned
    /\ IF fail = "none"
       THEN /\ awsStatus' = IF nvCommissioned THEN "AWS_STATUS_DISCONNECTED"
                                             ELSE "AWS_STATUS_NOT_PROVISIONED"
       ELSE UNCHANGED <<awsStatus>>
    /\ scenarioB' = (scenarioB /\ fail = "none")
    /\ UNCHANGED <<pMsg, allowCommissioning, devCertSet, devKeySet,
                   initShadow, resolveAwsServer, osVars, nvCommissioned,
                   certStored, keyStored, lteReady, awsConn, certAccepts, keyAccepts, recovery, behindLeft>>
    /\ UNCHANGED <<poolVars, carVars>>

appStateStartup(loadRc) ==
    /\ pc = "loop" /\ appState = "appStateStartup"
    /\ IF commissioned
       THEN /\ devCertSet' = setAwsCredentials(loadRc).cert
            /\ devKeySet' = setAwsCredentials(loadRc).key
            /\ appState' = IF setAwsCredentials(loadRc).rc = 0
                           THEN "appStateWaitForLte"
                           ELSE "appStateCommissionDevice"
       ELSE /\ appState' = "appStateCommissionDevice"
            /\ UNCHANGED <<devCertSet, devKeySet>>
    /\ scenarioB' = (scenarioB /\ commissioned
                                /\ setAwsCredentials(loadRc).rc = 0)
    /\ UNCHANGED <<pc, pMsg, appReady, commissioned, allowCommissioning,
                   initShadow, resolveAwsServer, osVars, envVars,
                   certAccepts, keyAccepts, recovery, behindLeft>>
    /\ UNCHANGED <<poolVars, carVars>>

\* appStateCommissionDevice() up to k_sem_take(&rx_cert_sem, K_FOREVER).
appStateCommissionDevice ==
    /\ pc = "loop" /\ appState = "appStateCommissionDevice"
    /\ awsStatus' = "AWS_STATUS_NOT_PROVISIONED"
    /\ allowCommissioning' = TRUE
    /\ pc' = "cd_take"
    /\ UNCHANGED <<appState, pMsg, appReady, commissioned, devCertSet,
                   devKeySet, initShadow, resolveAwsServer, osVars,
                   nvCommissioned, certStored, keyStored, lteReady, awsConn,
                   certAccepts, keyAccepts, recovery, behindLeft, scenarioB>>
    /\ UNCHANGED <<poolVars, carVars>>

\* appStateCommissionDevice() going on to appStateWaitForLte whatever
\* setAwsCredentials() returns.
appStateCommissionDevice_taken_anyRc(loadRc) ==
    /\ pc = "cd_take" /\ rx_cert_sem = 1
    /\ rx_cert_sem' = 0
    /\ devCertSet' = setAwsCredentials(loadRc).cert
    /\ devKeySet' = setAwsCredentials(loadRc).key
    /\ appState' = "appStateWaitForLte"
    /\ pc' = "loop"
    /\ UNCHANGED <<pMsg, appReady, commissioned, allowCommissioning,
                   initShadow, resolveAwsServer, lte_ready_sem, awsQ,
                   awsKeepAliveTimer, envVars, certAccepts, keyAccepts, recovery, behindLeft,
                   scenarioB>>
    /\ UNCHANGED <<poolVars, carVars>>

\* appStateCommissionDevice() from the return of k_sem_take.
appStateCommissionDevice_taken(loadRc) ==
    /\ pc = "cd_take" /\ rx_cert_sem = 1
    /\ rx_cert_sem' = 0
    /\ devCertSet' = setAwsCredentials(loadRc).cert
    /\ devKeySet' = setAwsCredentials(loadRc).key
    /\ IF setAwsCredentials(loadRc).rc = 0
       THEN appState' = "appStateWaitForLte"
       ELSE UNCHANGED appState
    /\ pc' = "loop"
    /\ UNCHANGED <<pMsg, appReady, commissioned, allowCommissioning,
                   initShadow, resolveAwsServer, lte_ready_sem, awsQ,
                   awsKeepAliveTimer, envVars, certAccepts, keyAccepts, recovery, behindLeft,
                   scenarioB>>
    /\ UNCHANGED <<poolVars, carVars>>

\* appStateWaitForLte() up to k_sem_take(&lte_ready_sem, K_FOREVER), or to
\* its end when lteIsReady().
appStateWaitForLte ==
    /\ pc = "loop" /\ appState = "appStateWaitForLte"
    /\ awsStatus' = "AWS_STATUS_DISCONNECTED"
    /\ IF lteReady
       THEN /\ appState' = "appStateLteConnectedAws"
            /\ pc' = "loop"
       ELSE /\ pc' = "wl_take"
            /\ UNCHANGED appState
    /\ UNCHANGED <<pMsg, flagVars, osVars, nvCommissioned, certStored,
                   keyStored, lteReady, awsConn, certAccepts,
                   keyAccepts, recovery, behindLeft, scenarioB>>
    /\ UNCHANGED <<poolVars, carVars>>

\* appStateWaitForLte() from the return of k_sem_take.
appStateWaitForLte_taken ==
    /\ pc = "wl_take" /\ lte_ready_sem = 1
    /\ lte_ready_sem' = 0
    /\ appState' = "appStateLteConnectedAws"
    /\ pc' = "loop"
    /\ UNCHANGED <<pMsg, flagVars, rx_cert_sem, awsQ, awsKeepAliveTimer,
                   envVars, certAccepts, keyAccepts,
                   recovery, behindLeft, scenarioB>>
    /\ UNCHANGED <<poolVars, carVars>>

\* appStateLteConnectedAws() looking at resolveAwsServer alone first.
appStateLteConnectedAws_resolveFirst ==
    /\ pc = "loop" /\ appState = "appStateLteConnectedAws"
    /\ appState' = IF resolveAwsServer
                   THEN "appStateAwsResolveServer"
                   ELSE IF areCertsSet THEN "appStateAwsConnect"
                   ELSE "appStateCommissionDevice"
    /\ UNCHANGED <<pc, pMsg, flagVars, osVars, envVars, histVars>>
    /\ UNCHANGED <<poolVars, carVars>>

\* appStateLteConnectedAws() without the resolveAwsServer branch.
appStateLteConnectedAws_noResolve ==
    /\ pc = "loop" /\ appState = "appStateLteConnectedAws"
    /\ appState' = IF areCertsSet THEN "appStateAwsConnect"
                   ELSE "appStateCommissionDevice"
    /\ UNCHANGED <<pc, pMsg, flagVars, osVars, envVars, histVars>>
    /\ UNCHANGED <<poolVars, carVars>>

appStateLteConnectedAws ==
    /\ pc = "loop" /\ appState = "appStateLteConnectedAws"
    /\ appState' = IF resolveAwsServer /\ areCertsSet
                   THEN "appStateAwsResolveServer"
                   ELSE IF areCertsSet THEN "appStateAwsConnect"
                   ELSE "appStateCommissionDevice"
    /\ UNCHANGED <<pc, pMsg, flagVars, osVars, envVars, certAccepts, keyAccepts, recovery, behindLeft,
                   scenarioB>>
    /\ UNCHANGED <<poolVars, carVars>>

\* appStateAwsResolveServer() up to the call of awsGetServerAddr().
appStateAwsResolveServer ==
    /\ pc = "loop" /\ appState = "appStateAwsResolveServer"
    /\ pc' = "rs_call"
    /\ UNCHANGED <<appState, pMsg, flagVars, osVars, envVars, histVars>>
    /\ UNCHANGED <<poolVars, carVars>>

\* appStateAwsResolveServer() from the return of awsGetServerAddr().
appStateAwsResolveServer_returned(ok) ==
    /\ pc = "rs_call"
    /\ IF ok
       THEN /\ resolveAwsServer' = FALSE
            /\ appState' = "appStateAwsConnect"
       ELSE UNCHANGED <<resolveAwsServer, appState>>
    /\ pc' = "loop"
    /\ scenarioB' = (scenarioB /\ ok)
    /\ UNCHANGED <<pMsg, appReady, commissioned, allowCommissioning,
                   devCertSet, devKeySet, initShadow, osVars, envVars,
                   certAccepts, keyAccepts, recovery, behindLeft>>
    /\ UNCHANGED <<poolVars, carVars>>

\* appStateAwsConnect() sending a device without LTE to commissioning.
appStateAwsConnect_lteToCommission ==
    /\ pc = "loop" /\ appState = "appStateAwsConnect"
    /\ IF (devCertSet # TRUE) \/ (devKeySet # TRUE) \/ ~lteReady
       THEN /\ appState' = "appStateCommissionDevice"
            /\ UNCHANGED <<pc, awsStatus>>
       ELSE /\ awsStatus' = "AWS_STATUS_CONNECTING"
            /\ pc' = "ac_call"
            /\ UNCHANGED appState
    /\ UNCHANGED <<pMsg, flagVars, osVars, nvCommissioned, certStored,
                   keyStored, lteReady, awsConn, histVars>>
    /\ UNCHANGED <<poolVars, carVars>>

\* appStateAwsConnect() up to the call of awsConnect(), or to its return
\* when a guard fails.
appStateAwsConnect ==
    /\ pc = "loop" /\ appState = "appStateAwsConnect"
    /\ IF (devCertSet # TRUE) \/ (devKeySet # TRUE)
       THEN /\ appState' = "appStateCommissionDevice"
            /\ UNCHANGED <<pc, awsStatus>>
       ELSE IF ~lteReady
       THEN /\ appState' = "appStateWaitForLte"
            /\ UNCHANGED <<pc, awsStatus>>
       ELSE /\ awsStatus' = "AWS_STATUS_CONNECTING"
            /\ pc' = "ac_call"
            /\ UNCHANGED appState
    /\ UNCHANGED <<pMsg, flagVars, osVars, nvCommissioned, certStored,
                   keyStored, lteReady, awsConn, certAccepts,
                   keyAccepts, recovery, behindLeft, scenarioB>>
    /\ UNCHANGED <<poolVars, carVars>>

\* appStateAwsConnect() from the return of awsConnect().
appStateAwsConnect_returned(ok) ==
    /\ pc = "ac_call"
    /\ IF ok
       THEN /\ awsConn' = TRUE
            /\ awsStatus' = "AWS_STATUS_CONNECTED"
            /\ appState' = "appStateAwsInitShadow"
       ELSE /\ awsStatus' = "AWS_STATUS_CONNECTION_ERR"
            /\ UNCHANGED <<awsConn, appState>>
    /\ pc' = "loop"
    /\ scenarioB' = (scenarioB /\ ok)
    /\ UNCHANGED <<pMsg, flagVars, osVars, nvCommissioned, certStored,
                   keyStored, lteReady, certAccepts, keyAccepts,
                   recovery, behindLeft>>
    /\ UNCHANGED <<poolVars, carVars>>

\* appStateAwsInitShadow() up to the call of
\* awsPublishShadowPersistentData(), or to its end when initShadow is false.
appStateAwsInitShadow ==
    /\ pc = "loop" /\ appState = "appStateAwsInitShadow"
    /\ IF initShadow
       THEN /\ pc' = "is_call"
            /\ UNCHANGED <<appState, initShadow, awsKeepAliveTimer>>
       ELSE /\ initShadow' = FALSE
            /\ appState' = "appStateAwsSendSensorData"
            /\ awsKeepAliveTimer' = TRUE
            /\ pc' = "loop"
    /\ UNCHANGED <<pMsg, appReady, commissioned, allowCommissioning,
                   devCertSet, devKeySet, resolveAwsServer, rx_cert_sem,
                   lte_ready_sem, awsQ, envVars, certAccepts, keyAccepts, recovery, behindLeft,
                   scenarioB>>
    /\ UNCHANGED <<poolVars, carVars>>

\* appStateAwsInitShadow() without StartKeepAliveTimer().
appStateAwsInitShadow_returned_noTimer(ok) ==
    /\ pc = "is_call"
    /\ ok => awsConn
    /\ IF ok
       THEN /\ initShadow' = FALSE
            /\ appState' = "appStateAwsSendSensorData"
       ELSE /\ appState' = "appStateAwsDisconnect"
            /\ UNCHANGED <<initShadow>>
    /\ UNCHANGED awsKeepAliveTimer
    /\ pc' = "loop"
    /\ scenarioB' = (scenarioB /\ ok)
    /\ UNCHANGED <<pMsg, appReady, commissioned, allowCommissioning,
                   devCertSet, devKeySet, resolveAwsServer, rx_cert_sem,
                   lte_ready_sem, awsQ, envVars, certAccepts, keyAccepts, recovery, behindLeft>>
    /\ UNCHANGED <<poolVars, carVars>>

\* appStateAwsInitShadow() leaving initShadow as it is after a successful
\* publish.
appStateAwsInitShadow_returned_keepsFlag(ok) ==
    /\ pc = "is_call"
    /\ ok => awsConn
    /\ IF ok
       THEN /\ appState' = "appStateAwsSendSensorData"
            /\ awsKeepAliveTimer' = TRUE
            /\ UNCHANGED <<initShadow>>
       ELSE /\ appState' = "appStateAwsDisconnect"
            /\ UNCHANGED <<initShadow, awsKeepAliveTimer>>
    /\ pc' = "loop"
    /\ scenarioB' = (scenarioB /\ ok)
    /\ UNCHANGED <<pMsg, appReady, commissioned, allowCommissioning,
                   devCertSet, devKeySet, resolveAwsServer, rx_cert_sem,
                   lte_ready_sem, awsQ, envVars, certAccepts, keyAccepts, recovery, behindLeft>>
    /\ UNCHANGED <<poolVars, carVars>>

\* appStateAwsInitShadow() from the return of
\* awsPublishShadowPersistentData().
appStateAwsInitShadow_returned(ok) ==
    /\ pc = "is_call"
    /\ ok => awsConn
    /\ IF ok
       THEN /\ initShadow' = FALSE
            /\ appState' = "appStateAwsSendSensorData"
            /\ awsKeepAliveTimer' = TRUE
       ELSE /\ appState' = "appStateAwsDisconnect"
            /\ UNCHANGED <<initShadow, awsKeepAliveTimer>>
    /\ pc' = "loop"
    /\ scenarioB' = (scenarioB /\ ok)
    /\ UNCHANGED <<pMsg, appReady, commissioned, allowCommissioning,
                   devCertSet, devKeySet, resolveAwsServer, rx_cert_sem,
                   lte_ready_sem, awsQ, envVars, certAccepts, keyAccepts, recovery, behindLeft>>
    /\ UNCHANGED <<poolVars, carVars>>

\* appStateAwsSendSensorData() without the awsConnected() half of its guard.
appStateAwsSendSensorData_noConnCheck ==
    /\ pc = "loop" /\ appState = "appStateAwsSendSensorData"
    /\ IF ~commissioned
       THEN /\ appState' = "appStateAwsDisconnect"
            /\ UNCHANGED pc
       ELSE /\ pc' = "mh_recv"
            /\ UNCHANGED appState
    /\ UNCHANGED <<pMsg, flagVars, osVars, envVars, histVars>>
    /\ UNCHANGED <<poolVars, carVars>>

\* appStateAwsSendSensorData() up to the first Framework_Receive of
\* awsMsgHandler(), or to its return when the guard sends it to disconnect.
appStateAwsSendSensorData ==
    /\ pc = "loop" /\ appState = "appStateAwsSendSensorData"
    /\ IF ~commissioned \/ ~awsConn
       THEN /\ appState' = "appStateAwsDisconnect"
            /\ UNCHANGED pc
       ELSE /\ pc' = "mh_recv"
            /\ UNCHANGED appState
    /\ UNCHANGED <<pMsg, flagVars, osVars, envVars, certAccepts, keyAccepts, recovery, behindLeft,
                   scenarioB>>
    /\ UNCHANGED <<poolVars, carVars>>

\* awsMsgHandler() with a receive that returns the newest entry.
awsMsgHandler_received_newest ==
    /\ pc = "mh_recv" /\ awsQ # <<>>
    /\ awsQ' = SubSeq(awsQ, 1, Len(awsQ) - 1)
    /\ IF awsQ[Len(awsQ)] \in DataMsgCodes
       THEN pMsg' = awsQ[Len(awsQ)] /\ pc' = "mh_pub"
       ELSE pMsg' = "NULL" /\ pc' = "loop"
    /\ msgsHeld' = IF awsQ[Len(awsQ)] \in DataMsgCodes THEN msgsHeld + 1
                   ELSE (msgsHeld + 1) - 1
    /\ behindLeft' = IF behindLeft > 0 THEN behindLeft - 1 ELSE 0
    /\ UNCHANGED <<appState, flagVars, rx_cert_sem, lte_ready_sem,
                   awsKeepAliveTimer, envVars, certAccepts, keyAccepts, recovery, scenarioB>>
    /\ UNCHANGED carVars

\* awsMsgHandler(): Framework_Receive returns the head of the queue.  A
\* data message goes to its publish call; a sentinel is freed and, rc being
\* -EINVAL, ends the loop and the state function.
awsMsgHandler_received ==
    /\ pc = "mh_recv" /\ awsQ # <<>>
    /\ awsQ' = Tail(awsQ)
    /\ IF Head(awsQ) \in DataMsgCodes
       THEN pMsg' = Head(awsQ) /\ pc' = "mh_pub"
       ELSE pMsg' = "NULL" /\ pc' = "loop"
    /\ msgsHeld' = IF Head(awsQ) \in DataMsgCodes THEN msgsHeld + 1
                   ELSE (msgsHeld + 1) - 1
    /\ behindLeft' = IF behindLeft > 0 THEN behindLeft - 1 ELSE 0
    /\ UNCHANGED <<appState, flagVars, rx_cert_sem, lte_ready_sem,
                   awsKeepAliveTimer, envVars, certAccepts, keyAccepts, recovery, scenarioB>>
    /\ UNCHANGED carVars

\* awsMsgHandler() that frees the message only when the publish succeeded.
awsMsgHandler_published_freeOnSuccess(ok) ==
    /\ pc = "mh_pub"
    /\ ok => awsConn
    /\ awsKeepAliveTimer' = IF pMsg = "FMC_AWS_KEEP_ALIVE" THEN TRUE
                            ELSE awsKeepAliveTimer
    /\ pMsg' = "NULL"
    /\ msgsHeld' = IF ok THEN msgsHeld - 1 ELSE msgsHeld
    /\ IF ok
       THEN /\ pc' = "mh_recv"
            /\ recovery' = "none"
            /\ behindLeft' = 0
       ELSE /\ pc' = "loop"
            /\ recovery' = "failed"
            /\ behindLeft' = Len(awsQ)
    /\ scenarioB' = (scenarioB /\ ok)
    /\ UNCHANGED <<appState, flagVars, rx_cert_sem, lte_ready_sem, awsQ,
                   envVars, certAccepts, keyAccepts>>
    /\ UNCHANGED carVars

\* awsMsgHandler() from the return of the publish call to the next
\* Framework_Receive (rc == 0) or to the return of the state function.
awsMsgHandler_published(ok) ==
    /\ pc = "mh_pub"
    /\ ok => awsConn
    /\ awsKeepAliveTimer' = IF pMsg = "FMC_AWS_KEEP_ALIVE" THEN TRUE
                            ELSE awsKeepAliveTimer
    /\ pMsg' = "NULL"
    /\ msgsHeld' = msgsHeld - 1
    /\ IF ok
       THEN /\ pc' = "mh_recv"
            /\ recovery' = "none"
            /\ behindLeft' = 0
       ELSE /\ pc' = "loop"
            /\ recovery' = "failed"
            /\ behindLeft' = Len(awsQ)
    /\ scenarioB' = (scenarioB /\ ok)
    /\ UNCHANGED <<appState, flagVars, rx_cert_sem, lte_ready_sem, awsQ,
                   envVars, certAccepts, keyAccepts>>
    /\ UNCHANGED carVars

\* appStateAwsDisconnect() without its broadcast.
appStateAwsDisconnect_noBroadcast ==
    /\ pc = "loop" /\ appState = "appStateAwsDisconnect"
    /\ awsConn' = FALSE
    /\ awsStatus' = "AWS_STATUS_DISCONNECTED"
    /\ appState' = "appStateAwsConnect"
    /\ recovery' = IF recovery = "failed" THEN "disconnected" ELSE recovery
    /\ UNCHANGED <<pc, pMsg, flagVars, rx_cert_sem, lte_ready_sem, awsQ,
                   awsKeepAliveTimer, nvCommissioned, certStored, keyStored,
                   lteReady, certAccepts, keyAccepts, behindLeft,
                   scenarioB>>
    /\ UNCHANGED <<poolVars, carVars>>

\* appStateAwsDisconnect() purging the queue before its broadcast.
appStateAwsDisconnect_purge ==
    /\ pc = "loop" /\ appState = "appStateAwsDisconnect"
    /\ awsConn' = FALSE
    /\ awsStatus' = "AWS_STATUS_DISCONNECTED"
    /\ awsQ' = <<"FMC_AWS_DISCONNECTED">>
    /\ appState' = "appStateAwsConnect"
    /\ recovery' = IF recovery = "failed" THEN "disconnected" ELSE recovery
    /\ UNCHANGED <<pc, pMsg, flagVars, rx_cert_sem, lte_ready_sem,
                   awsKeepAliveTimer, nvCommissioned, certStored, keyStored,
                   lteReady, certAccepts, keyAccepts, behindLeft,
                   scenarioB>>
    /\ UNCHANGED <<poolVars, carVars>>

appStateAwsDisconnect ==
    /\ pc = "loop" /\ appState = "appStateAwsDisconnect"
    /\ awsConn' = FALSE
    /\ awsStatus' = "AWS_STATUS_DISCONNECTED"
    /\ awsQ' = Framework_Send(awsQ, "FMC_AWS_DISCONNECTED")
    /\ appState' = "appStateAwsConnect"
    /\ recovery' = IF recovery = "failed" THEN "disconnected" ELSE recovery
    /\ UNCHANGED <<pc, pMsg, flagVars, rx_cert_sem, lte_ready_sem,
                   awsKeepAliveTimer, nvCommissioned, certStored, keyStored,
                   lteReady, certAccepts, keyAccepts, behindLeft,
                   scenarioB>>
    /\ UNCHANGED <<poolVars, carVars>>

(***************************************************************************)
(* The other contexts.                                                     *)
(***************************************************************************)
\* lteEvent() without the k_sem_give for LTE_EVT_READY.
lteEvent_noGive(event) ==
    /\ pc # "exit"
    /\ IF event = "LTE_EVT_READY"
       THEN lteReady' = TRUE /\ UNCHANGED <<lte_ready_sem, scenarioB>>
       ELSE lteReady' = FALSE /\ lte_ready_sem' = 0 /\ scenarioB' = FALSE
    /\ UNCHANGED <<ctlVars, flagVars, rx_cert_sem, awsQ, awsKeepAliveTimer,
                   nvCommissioned, certStored, keyStored, awsConn, awsStatus,
                   certAccepts, keyAccepts, recovery, behindLeft>>
    /\ UNCHANGED <<poolVars, carVars>>

lteEvent(event) ==
    /\ pc # "exit"
    /\ IF event = "LTE_EVT_READY"
       THEN lteReady' = TRUE /\ lte_ready_sem' = 1 /\ UNCHANGED scenarioB
       ELSE lteReady' = FALSE /\ lte_ready_sem' = 0 /\ scenarioB' = FALSE
    /\ UNCHANGED <<ctlVars, flagVars, rx_cert_sem, awsQ, awsKeepAliveTimer,
                   nvCommissioned, certStored, keyStored, awsConn, awsStatus,
                   certAccepts, keyAccepts, recovery, behindLeft>>
    /\ UNCHANGED <<poolVars, carVars>>

\* Expiry of a keep-alive timer that re-arms itself.
AwsKeepAliveTimerCallbackIsr_periodic ==
    /\ awsKeepAliveTimer
    /\ awsKeepAliveTimer' = TRUE
    /\ awsQ' = Framework_Send(awsQ, "FMC_AWS_KEEP_ALIVE")
    /\ UNCHANGED <<ctlVars, flagVars, rx_cert_sem, lte_ready_sem, envVars,
                   histVars>>
    /\ UNCHANGED <<poolVars, carVars>>

\* Expiry of the one-shot keep-alive timer.
AwsKeepAliveTimerCallbackIsr ==
    /\ awsKeepAliveTimer
    /\ awsKeepAliveTimer' = FALSE
    /\ awsQ' = Framework_Send(awsQ, "FMC_AWS_KEEP_ALIVE")
    /\ UNCHANGED <<ctlVars, flagVars, rx_cert_sem, lte_ready_sem, envVars,
                   histVars>>
    /\ UNCHANGED <<poolVars, carVars>>

\* The BL654 sensor sends a reading to the AWS queue.
bl654_sensor_event ==
    /\ pc \notin {"boot", "exit"}
    /\ awsQ' = Framework_Send(awsQ, "FMC_BL654_SENSOR_EVENT")
    /\ UNCHANGED <<ctlVars, flagVars, rx_cert_sem, lte_ready_sem,
                   awsKeepAliveTimer, envVars, histVars>>
    /\ UNCHANGED <<poolVars, carVars>>

\* The AWS client lost its session and calls back.
awsDisconnectCallback ==
    /\ awsConn
    /\ awsConn' = FALSE
    /\ awsQ' = Framework_Send(awsQ, "FMC_AWS_DISCONNECTED")
    /\ scenarioB' = FALSE
    /\ UNCHANGED <<ctlVars, flagVars, rx_cert_sem, lte_ready_sem,
                   awsKeepAliveTimer, nvCommissioned, certStored, keyStored,
                   lteReady, awsStatus, certAccepts, keyAccepts, recovery, behindLeft>>
    /\ UNCHANGED <<poolVars, carVars>>

\* decommission() asking for a new server resolution.
decommission_resetsResolve ==
    /\ nvCommissioned' = FALSE
    /\ devCertSet' = FALSE
    /\ devKeySet' = FALSE
    /\ commissioned' = FALSE
    /\ allowCommissioning' = TRUE
    /\ initShadow' = TRUE
    /\ resolveAwsServer' = TRUE
    /\ appState' = "appStateAwsDisconnect"
    /\ awsQ' = Framework_Send(awsQ, "FMC_AWS_DECOMMISSION")
    /\ certAccepts' = 0
    /\ keyAccepts' = 0
    /\ scenarioB' = FALSE
    /\ UNCHANGED <<pc, pMsg, appReady, rx_cert_sem,
                   lte_ready_sem, awsKeepAliveTimer, lteReady, awsConn,
                   awsStatus, recovery, behindLeft>>
    /\ UNCHANGED <<poolVars, carVars>>

\* decommission() without the reset of initShadow.
decommission_keepsInitShadow ==
    /\ nvCommissioned' = FALSE
    /\ devCertSet' = FALSE
    /\ devKeySet' = FALSE
    /\ commissioned' = FALSE
    /\ allowCommissioning' = TRUE
    /\ appState' = "appStateAwsDisconnect"
    /\ awsQ' = Framework_Send(awsQ, "FMC_AWS_DECOMMISSION")
    /\ certAccepts' = 0
    /\ keyAccepts' = 0
    /\ scenarioB' = FALSE
    /\ UNCHANGED <<pc, pMsg, appReady, initShadow, resolveAwsServer,
                   rx_cert_sem, lte_ready_sem, awsKeepAliveTimer, lteReady,
                   awsConn, awsStatus, recovery, behindLeft>>
    /\ UNCHANGED <<poolVars, carVars>>

\* decommission(); the caller says what becomes of the stored credentials.
decommission ==
    /\ nvCommissioned' = FALSE
    /\ devCertSet' = FALSE
    /\ devKeySet' = FALSE
    /\ commissioned' = FALSE
    /\ allowCommissioning' = TRUE
    /\ initShadow' = TRUE
    /\ appState' = "appStateAwsDisconnect"
    /\ awsQ' = Framework_Send(awsQ, "FMC_AWS_DECOMMISSION")
    /\ certAccepts' = 0
    /\ keyAccepts' = 0
    /\ scenarioB' = FALSE
    /\ UNCHANGED <<pc, pMsg, appReady, resolveAwsServer, rx_cert_sem,
                   lte_ready_sem, awsKeepAliveTimer, lteReady, awsConn,
                   awsStatus, recovery, behindLeft>>
    /\ UNCHANGED <<poolVars, carVars>>

\* set_commissioned() without nvStoreCommissioned(true).
set_commissioned_noStore ==
    /\ commissioned' = TRUE
    /\ allowCommissioning' = FALSE
    /\ awsStatus' = "AWS_STATUS_DISCONNECTED"
    /\ rx_cert_sem' = 1
    /\ UNCHANGED <<ctlVars, appReady, devCertSet, devKeySet, initShadow,
                   resolveAwsServer, lte_ready_sem, awsQ, awsKeepAliveTimer,
                   nvCommissioned, lteReady, awsConn, certAccepts,
                   keyAccepts, recovery, behindLeft, scenarioB>>
    /\ UNCHANGED <<poolVars, carVars>>

\* set_commissioned(); the caller says what becomes of the stored
\* credentials.
set_commissioned ==
    /\ nvCommissioned' = TRUE
    /\ commissioned' = TRUE
    /\ allowCommissioning' = FALSE
    /\ awsStatus' = "AWS_STATUS_DISCONNECTED"
    /\ rx_cert_sem' = 1
    /\ UNCHANGED <<ctlVars, appReady, devCertSet, devKeySet, initShadow,
                   resolveAwsServer, lte_ready_sem, awsQ, awsKeepAliveTimer,
                   lteReady, awsConn, certAccepts,
                   keyAccepts, recovery, behindLeft, scenarioB>>
    /\ UNCHANGED <<poolVars, carVars>>

\* awsSvcEvent(AWS_SVC_EVENT_SETTINGS_SAVED), the BLE service's callback:
\* the service has saved what the client wrote (cert, key: which of the
\* two it wrote).
awsSvcEvent_saved(cert, key) ==
    /\ pc \notin {"boot", "exit"}
    /\ set_commissioned
    /\ certStored' = (certStored \/ cert)
    /\ keyStored' = (keyStored \/ key)

\* awsSvcEvent(AWS_SVC_EVENT_SETTINGS_CLEARED): the service has cleared
\* the stored credentials.
awsSvcEvent_cleared ==
    /\ pc \notin {"boot", "exit"}
    /\ decommission
    /\ certStored' = FALSE
    /\ keyStored' = FALSE

\* shellSetCert()'s result with the size check off by one.
shellSetCertRc_offByOne(type, certSize, saveRc) ==
    IF ~appReady THEN APP_ERR_NOT_READY
    ELSE IF ~allowCommissioning THEN APP_ERR_COMMISSION_DISALLOWED
    ELSE IF type \notin CREDENTIAL_TYPE THEN APP_ERR_UNKNOWN_CRED
    ELSE IF certSize > CredMaxLength + 1 THEN APP_ERR_CRED_TOO_LARGE
    ELSE saveRc

\* shellSetCert()'s result without the allowCommissioning check.
shellSetCertRc_noAllowCheck(type, certSize, saveRc) ==
    IF ~appReady THEN APP_ERR_NOT_READY
    ELSE IF type \notin CREDENTIAL_TYPE THEN APP_ERR_UNKNOWN_CRED
    ELSE IF certSize > CredMaxLength THEN APP_ERR_CRED_TOO_LARGE
    ELSE saveRc

\* shellSetCert()'s result with the allowCommissioning check first.
shellSetCertRc_allowFirst(type, certSize, saveRc) ==
    IF ~allowCommissioning THEN APP_ERR_COMMISSION_DISALLOWED
    ELSE IF ~appReady THEN APP_ERR_NOT_READY
    ELSE IF type \notin CREDENTIAL_TYPE THEN APP_ERR_UNKNOWN_CRED
    ELSE IF certSize > CredMaxLength THEN APP_ERR_CRED_TOO_LARGE
    ELSE saveRc

\* The result of shellSetCert(type, cred) with strlen(cred) = certSize,
\* given the result of aws_svc_save_clear_settings(true).
shellSetCertRc(type, certSize, saveRc) ==
    IF ~appReady THEN APP_ERR_NOT_READY
    ELSE IF ~allowCommissioning THEN APP_ERR_COMMISSION_DISALLOWED
    ELSE IF type \notin CREDENTIAL_TYPE THEN APP_ERR_UNKNOWN_CRED
    ELSE IF certSize > CredMaxLength THEN APP_ERR_CRED_TOO_LARGE
    ELSE saveRc

Count2(n) == IF n < 2 THEN n + 1 ELSE 2

shellSetCert(type, certSize, saveRc) ==
    /\ IF ~(shellSetCertRc(type, certSize, saveRc) < 0)
       THEN /\ devCertSet' = (devCertSet \/ type = "CREDENTIAL_CERT")
            /\ devKeySet' = (devKeySet \/ type = "CREDENTIAL_KEY")
            /\ certStored' = (certStored \/ type = "CREDENTIAL_CERT")
            /\ keyStored' = (keyStored \/ type = "CREDENTIAL_KEY")
            /\ certAccepts' = IF type = "CREDENTIAL_CERT"
                              THEN Count2(certAccepts) ELSE certAccepts
            /\ keyAccepts' = IF type = "CREDENTIAL_KEY"
                             THEN Count2(keyAccepts) ELSE keyAccepts
            /\ rx_cert_sem' = IF devCertSet' /\ devKeySet' THEN 1
                              ELSE rx_cert_sem
       ELSE UNCHANGED <<devCertSet, devKeySet, certStored, keyStored,
                        certAccepts, keyAccepts, rx_cert_sem>>
    /\ UNCHANGED <<ctlVars, appReady, commissioned, allowCommissioning,
                   initShadow, resolveAwsServer, lte_ready_sem, awsQ,
                   awsKeepAliveTimer, nvCommissioned, lteReady, awsConn,
                   awsStatus, recovery, behindLeft, scenarioB>>
    /\ UNCHANGED <<poolVars, carVars>>

\* The result of shell_decommission().
shell_decommissionRc == IF ~appReady THEN APP_ERR_NOT_READY ELSE 0

shell_decommission ==
    IF ~appReady
    THEN UNCHANGED vars
    ELSE /\ decommission
         /\ certStored' = FALSE
         /\ keyStored' = FALSE

(***************************************************************************)
(* The second application (main.c of the MQTT application): its control    *)
(* task, LTE events, the producers of cloudQ and the queue's guard.        *)
(***************************************************************************)
oobVars == <<ctlVars, poolVars, flagVars, osVars, envVars, histVars>>

\* Where the second main() can fail, or "none".
car_InitFailures == {"lteInit", "none"}

\* main() of the second application, up to the first call of appState().
car_main(fail) ==
    /\ car_pc = "boot"
    /\ IF fail = "none"
       THEN /\ car_pc' = "loop"
            /\ car_appReady' = TRUE
            /\ car_appState' = "appStateStartup"
       ELSE /\ car_pc' = "exit"
            /\ UNCHANGED <<car_appReady, car_appState>>
    /\ UNCHANGED <<car_lte_ready_sem, car_lteReady, cloudQ, flushed,
                   CONFIG_CLOUD_QUEUE_SIZE, CONFIG_CLOUD_PURGE_THRESHOLD,
                   injected, dropped, flushedTotal, sinceCheck, oobVars>>

car_appStateStartup ==
    /\ car_pc = "loop" /\ car_appState = "appStateStartup"
    /\ car_appState' = "appStateWaitForLte"
    /\ UNCHANGED <<car_pc, car_appReady, car_lte_ready_sem, car_lteReady,
                   cloudQ, flushed, CONFIG_CLOUD_QUEUE_SIZE,
                   CONFIG_CLOUD_PURGE_THRESHOLD, injected, dropped,
                   flushedTotal, sinceCheck, oobVars>>

\* appStateWaitForLte() up to k_sem_take(&lte_ready_sem, K_FOREVER), or to
\* its end when lteIsReady().
car_appStateWaitForLte ==
    /\ car_pc = "loop" /\ car_appState = "appStateWaitForLte"
    /\ IF car_lteReady
       THEN car_appState' = "appStateLteConnected" /\ UNCHANGED car_pc
       ELSE car_pc' = "wl_take" /\ UNCHANGED car_appState
    /\ UNCHANGED <<car_appReady, car_lte_ready_sem, car_lteReady, cloudQ,
                   flushed, CONFIG_CLOUD_QUEUE_SIZE,
                   CONFIG_CLOUD_PURGE_THRESHOLD, injected, dropped,
                   flushedTotal, sinceCheck, oobVars>>

\* appStateWaitForLte() from the return of k_sem_take.
car_appStateWaitForLte_taken ==
    /\ car_pc = "wl_take" /\ car_lte_ready_sem = 1
    /\ car_lte_ready_sem' = 0
    /\ car_appState' = "appStateLteConnected"
    /\ car_pc' = "loop"
    /\ UNCHANGED <<car_appReady, car_lteReady, cloudQ, flushed,
                   CONFIG_CLOUD_QUEUE_SIZE, CONFIG_CLOUD_PURGE_THRESHOLD,
                   injected, dropped, flushedTotal, sinceCheck, oobVars>>

\* appStateLteConnected(): k_sleep and return.
car_appStateLteConnected ==
    /\ car_pc = "loop" /\ car_appState = "appStateLteConnected"
    /\ UNCHANGED vars

car_lteEvent(event) ==
    /\ car_pc # "exit"
    /\ IF event = "LTE_EVT_READY"
       THEN car_lteReady' = TRUE /\ car_lte_ready_sem' = 1
       ELSE car_lteReady' = FALSE /\ car_lte_ready_sem' = 0
    /\ UNCHANGED <<car_appState, car_pc, car_appReady, cloudQ, flushed,
                   CONFIG_CLOUD_QUEUE_SIZE, CONFIG_CLOUD_PURGE_THRESHOLD,
                   injected, dropped, flushedTotal, sinceCheck, oobVars>>

\* Another task sends a message to FWK_ID_CLOUD: a put without wait, which
\* a full queue refuses.  A message is named by its number in the order of
\* sending.
cloud_send ==
    /\ car_pc \notin {"boot", "exit"}
    /\ injected < MaxInjected
    /\ injected' = injected + 1
    /\ sinceCheck' = sinceCheck + 1
    /\ IF Len(cloudQ) < CONFIG_CLOUD_QUEUE_SIZE
       THEN cloudQ' = Append(cloudQ, injected + 1) /\ UNCHANGED dropped
       ELSE dropped' = dropped + 1 /\ UNCHANGED cloudQ
    /\ UNCHANGED <<car_appState, car_pc, car_appReady, car_lte_ready_sem,
                   car_lteReady, flushed, CONFIG_CLOUD_QUEUE_SIZE,
                   CONFIG_CLOUD_PURGE_THRESHOLD, flushedTotal, oobVars>>

\* Framework_Flush(FWK_ID_CLOUD): what it leaves of the queue and the count
\* it returns.
Framework_Flush(q) == [queue |-> <<>>, count |-> Len(q)]

\* cloud_fifo_monitor_isr() draining the queue down to the threshold.
cloud_fifo_monitor_isr_toThreshold ==
    /\ car_pc \notin {"boot", "exit"}
    /\ IF Len(cloudQ) > CONFIG_CLOUD_PURGE_THRESHOLD
       THEN /\ cloudQ' = SubSeq(cloudQ, 1, CONFIG_CLOUD_PURGE_THRESHOLD)
            /\ flushed' = Len(cloudQ) - CONFIG_CLOUD_PURGE_THRESHOLD
            /\ flushedTotal' = flushedTotal + flushed'
       ELSE UNCHANGED <<cloudQ, flushed, flushedTotal>>
    /\ sinceCheck' = 0
    /\ UNCHANGED <<car_appState, car_pc, car_appReady, car_lte_ready_sem,
                   car_lteReady, CONFIG_CLOUD_QUEUE_SIZE,
                   CONFIG_CLOUD_PURGE_THRESHOLD, injected, dropped, oobVars>>

\* cloud_fifo_monitor_isr() flushing at the threshold already.
cloud_fifo_monitor_isr_atThreshold ==
    /\ car_pc \notin {"boot", "exit"}
    /\ IF Len(cloudQ) >= CONFIG_CLOUD_PURGE_THRESHOLD
       THEN /\ cloudQ' = Framework_Flush(cloudQ).queue
            /\ flushed' = Framework_Flush(cloudQ).count
            /\ flushedTotal' = flushedTotal + Framework_Flush(cloudQ).count
       ELSE UNCHANGED <<cloudQ, flushed, flushedTotal>>
    /\ sinceCheck' = 0
    /\ UNCHANGED <<car_appState, car_pc, car_appReady, car_lte_ready_sem,
                   car_lteReady, CONFIG_CLOUD_QUEUE_SIZE,
                   CONFIG_CLOUD_PURGE_THRESHOLD, injected, dropped, oobVars>>

\* cloud_fifo_monitor_isr() flushing whatever is queued.
cloud_fifo_monitor_isr_anyUsed ==
    /\ car_pc \notin {"boot", "exit"}
    /\ IF Len(cloudQ) > 0
       THEN /\ cloudQ' = Framework_Flush(cloudQ).queue
            /\ flushed' = Framework_Flush(cloudQ).count
            /\ flushedTotal' = flushedTotal + Framework_Flush(cloudQ).count
       ELSE UNCHANGED <<cloudQ, flushed, flushedTotal>>
    /\ sinceCheck' = 0
    /\ UNCHANGED <<car_appState, car_pc, car_appReady, car_lte_ready_sem,
                   car_lteReady, CONFIG_CLOUD_QUEUE_SIZE,
                   CONFIG_CLOUD_PURGE_THRESHOLD, injected, dropped, oobVars>>

\* Expiry of the periodic fifo_timer, which main() starts.
cloud_fifo_monitor_isr ==
    /\ car_pc \notin {"boot", "exit"}
    /\ IF Len(cloudQ) > CONFIG_CLOUD_PURGE_THRESHOLD
       THEN /\ cloudQ' = Framework_Flush(cloudQ).queue
            /\ flushed' = Framework_Flush(cloudQ).count
            /\ flushedTotal' = flushedTotal + Framework_Flush(cloudQ).count
       ELSE UNCHANGED <<cloudQ, flushed, flushedTotal>>
    /\ sinceCheck' = 0
    /\ UNCHANGED <<car_appState, car_pc, car_appReady, car_lte_ready_sem,
                   car_lteReady, CONFIG_CLOUD_QUEUE_SIZE,
                   CONFIG_CLOUD_PURGE_THRESHOLD, injected, dropped, oobVars>>

(***************************************************************************)
(* Specifications.                                                         *)
(***************************************************************************)
\* A step of the control task other than the return of a publish call of
\* awsMsgHandler.
ControlStepNoPublish ==
    \/ \E fail \in InitFailures : main(fail)
    \/ \E loadRc \in SaveResults : appStateStartup(loadRc)
    \/ appStateCommissionDevice
    \/ \E loadRc \in SaveResults : appStateCommissionDevice_taken(loadRc)
    \/ appStateWaitForLte
    \/ appStateWaitForLte_taken
    \/ appStateLteConnectedAws
    \/ appStateAwsResolveServer
    \/ \E ok \in BOOLEAN : appStateAwsResolveServer_returned(ok)
    \/ appStateAwsConnect
    \/ \E ok \in BOOLEAN : appStateAwsConnect_returned(ok)
    \/ appStateAwsInitShadow
    \/ \E ok \in BOOLEAN : appStateAwsInitShadow_returned(ok)
    \/ appStateAwsSendSensorData
    \/ awsMsgHandler_received
    \/ appStateAwsDisconnect

\* A step of the control task.
ControlStep ==
    \/ ControlStepNoPublish
    \/ \E ok \in BOOLEAN : awsMsgHandler_published(ok)

LteStep ==
    \E event \in {"LTE_EVT_READY", "LTE_EVT_DISCONNECTED"} : lteEvent(event)

\* Every context.
Next ==
    \/ ControlStep
    \/ LteStep
    \/ AwsKeepAliveTimerCallbackIsr
    \/ bl654_sensor_event
    \/ awsDisconnectCallback
    \/ \E cert \in BOOLEAN, key \in BOOLEAN : awsSvcEvent_saved(cert, key)
    \/ awsSvcEvent_cleared
    \/ \E type \in CredentialArgs, certSize \in CredentialSizes,
          saveRc \in SaveResults : shellSetCert(type, certSize, saveRc)
    \/ shell_decommission

Spec == Init /\ [][Next]_vars

\* The telemetry side: the control task, the producers of the AWS queue,
\* LTE events, and commissioning and decommissioning over BLE with both
\* credentials written.  No shell.
NextTelemetry ==
    \/ ControlStep
    \/ LteStep
    \/ AwsKeepAliveTimerCallbackIsr
    \/ bl654_sensor_event
    \/ awsDisconnectCallback
    \/ awsSvcEvent_saved(TRUE, TRUE)
    \/ awsSvcEvent_cleared

SpecTelemetry == Init /\ [][NextTelemetry]_vars

\* The commissioning side: the control task, the BLE service, the shell
\* and LTE events.  Nothing produces a data message here (no sensor, no
\* keep-alive expiry), so the queue holds sentinels only and awsMsgHandler
\* never reaches a publish call.
NextCommissioning ==
    \/ ControlStepNoPublish
    \/ LteStep
    \/ \E cert \in BOOLEAN, key \in BOOLEAN : awsSvcEvent_saved(cert, key)
    \/ awsSvcEvent_cleared
    \/ \E type \in CredentialArgs, certSize \in CredentialSizes,
          saveRc \in SaveResults : shellSetCert(type, certSize, saveRc)
    \/ shell_decommission

SpecCommissioning == Init /\ [][NextCommissioning]_vars

\* A step of the second application's control task.
car_ControlStep ==
    \/ \E fail \in car_InitFailures : car_main(fail)
    \/ car_appStateStartup
    \/ car_appStateWaitForLte
    \/ car_appStateWaitForLte_taken
    \/ car_appStateLteConnected

\* The second application: its control task, LTE events, the producers of
\* cloudQ and the guard.  Nothing reads cloudQ in this main.c.
NextCloud ==
    \/ car_ControlStep
    \/ \E event \in {"LTE_EVT_READY", "LTE_EVT_DISCONNECTED"} :
          car_lteEvent(event)
    \/ cloud_send
    \/ cloud_fifo_monitor_isr

SpecCloud == InitCloud /\ [][NextCloud]_vars

\* Both applications from power-up: each control task, the LTE events, and
\* for the first application the commissioning and decommissioning calls
\* that write the state pointer from outside the control task.
NextBoot ==
    \/ ControlStepNoPublish
    \/ LteStep
    \/ awsSvcEvent_saved(TRUE, TRUE)
    \/ shell_decommission
    \/ car_ControlStep
    \/ \E event \in {"LTE_EVT_READY", "LTE_EVT_DISCONNECTED"} :
          car_lteEvent(event)

SpecBoot == Init /\ [][NextBoot]_vars

\* The control task with LTE events and with commissioning and
\* decommissioning over BLE, the control task being scheduled whenever it
\* can run in appStateWaitForLte: it is the main thread and nothing else
\* holds it back once k_sem_take can return.
NextWaitForLte ==
    \/ ControlStepNoPublish
    \/ LteStep
    \/ awsSvcEvent_saved(TRUE, TRUE)
    \/ awsSvcEvent_cleared

SpecWaitForLte ==
    /\ Init
    /\ [][NextWaitForLte]_vars
    /\ WF_vars(appStateWaitForLte)
    /\ WF_vars(appStateWaitForLte_taken)

(***************************************************************************)
(* Properties.                                                             *)
(***************************************************************************)
\* C1: the application state is never set to appStateAwsSendSensorData
\* while areCertsSet() is false, whatever decommission(), set_commissioned()
\* and shellSetCert() do in other contexts.
C1_SendSensorDataNeedsCerts ==
    [][(appState' = "appStateAwsSendSensorData"
        /\ appState # "appStateAwsSendSensorData") => areCertsSet]_vars

\* C2: only the control task writes appState or reports a cloud session
\* status: every step that changes appState or awsStatus is a step of
\* main() or of a state function called from the main loop.
C2_OnlyControlTaskWrites ==
    [][(appState' # appState \/ awsStatus' # awsStatus) => ControlStep]_vars

\* C3 as stated: after a failed publish in appStateAwsSendSensorData the
\* next state change is to appStateAwsDisconnect, whatever awsConnected()
\* reports.
C3_FailedPublishDisconnects ==
    [][(recovery = "failed" /\ pc = "loop"
        /\ appState = "appStateAwsSendSensorData"
        /\ <<pc, appState>>' # <<pc, appState>>)
       => appState' = "appStateAwsDisconnect"]_vars

\* C3 amended: after a failed publish awsMsgHandler returns; the next pass
\* of appStateAwsSendSensorData moves to appStateAwsDisconnect when the
\* device is not commissioned or awsConnected() is false, and calls
\* awsMsgHandler again otherwise (unless decommission() sets
\* appStateAwsDisconnect first).  appStateAwsDisconnect sends the
\* disconnect message to the queue and sets appStateAwsConnect.
C3_FailedPublishDisconnectsWhenNotConnected ==
    /\ [][(recovery = "failed" /\ pc = "loop"
           /\ appState = "appStateAwsSendSensorData"
           /\ <<pc, appState>>' # <<pc, appState>>)
          => /\ (~commissioned \/ ~awsConn)
                    => (appState' = "appStateAwsDisconnect" /\ pc' = "loop")
             /\ \/ appState' = "appStateAwsDisconnect" /\ pc' = "loop"
                \/ /\ commissioned /\ awsConn
                   /\ appState' = appState /\ pc' = "mh_recv"]_vars
    /\ [][(pc = "loop" /\ appState = "appStateAwsDisconnect"
           /\ appState' # appState)
          => /\ appState' = "appStateAwsConnect"
             /\ awsQ' = Framework_Send(awsQ, "FMC_AWS_DISCONNECTED")
             /\ ~awsConn']_vars

\* The machine is back in appStateAwsConnect after a failed publish and
\* appStateAwsDisconnect.
C3_Witness ==
    /\ recovery = "disconnected"
    /\ appState = "appStateAwsConnect"
    /\ pc = "loop"
    /\ Len(awsQ) > 0 /\ awsQ[Len(awsQ)] = "FMC_AWS_DISCONNECTED"

\* C4: the queue only loses its head, to the Framework_Receive of
\* awsMsgHandler; every other step, the failed publish, appStateAwsDisconnect,
\* appStateAwsConnect and appStateAwsInitShadow included, keeps what is
\* queued in its order.  A dequeued data message goes to the publish call,
\* a dequeued sentinel is freed.  So the messages that were behind a failed
\* publish are still queued until awsMsgHandler dequeues them.
C4_QueuedMessagesSurviveReconnect ==
    [][/\ \/ IsPrefix(awsQ, awsQ')
          \/ /\ pc = "mh_recv" /\ appState' = appState
             /\ awsQ # <<>> /\ awsQ' = Tail(awsQ)
             /\ IF Head(awsQ) \in DataMsgCodes
                THEN pc' = "mh_pub" /\ pMsg' = Head(awsQ)
                ELSE pc' = "loop" /\ pMsg' = "NULL"
       /\ behindLeft' <= Len(awsQ')]_vars

\* awsMsgHandler runs again after a failed publish and a reconnect, with
\* the messages that were behind the failed one still queued.
C4_Witness ==
    /\ recovery = "disconnected"
    /\ appState = "appStateAwsSendSensorData"
    /\ pc = "mh_recv"
    /\ behindLeft = AwsQCapacity
    /\ awsQ[1] \in DataMsgCodes

\* C5: when decommission() runs while the control task is in awsMsgHandler
\* (blocked on the queue or in a publish call), the decommission sentinel
\* is in the AWS queue afterwards, whatever the queue held.
C5_DecommissionSentinelQueued ==
    [][(commissioned /\ ~commissioned'
        /\ pc \in {"mh_recv", "mh_pub"}
        /\ appState = "appStateAwsSendSensorData")
       => \E i \in 1..Len(awsQ') : awsQ'[i] = "FMC_AWS_DECOMMISSION"]_vars

\* The application state changes of scenario B, in their order.
ScenarioBEdges ==
    {<<"NULL", "appStateStartup">>,
     <<"appStateStartup", "appStateWaitForLte">>,
     <<"appStateWaitForLte", "appStateLteConnectedAws">>,
     <<"appStateLteConnectedAws", "appStateAwsResolveServer">>,
     <<"appStateAwsResolveServer", "appStateAwsConnect">>,
     <<"appStateAwsConnect", "appStateAwsInitShadow">>,
     <<"appStateAwsInitShadow", "appStateAwsSendSensorData">>}

\* C6: on a boot with the stored commissioned flag set and both credentials
\* stored, as long as every load, resolve, connect and publish succeeds and
\* nothing disconnects or decommissions, each change of the application
\* state is the next one of Startup, WaitForLte, LteConnectedAws,
\* AwsResolveServer, AwsConnect, AwsInitShadow, AwsSendSensorData.
C6_ScenarioBSequence ==
    [][(scenarioB' /\ appState' # appState)
       => <<appState, appState'>> \in ScenarioBEdges]_vars

\* Scenario B has arrived in appStateAwsSendSensorData.
C6_Witness ==
    /\ scenarioB
    /\ appState = "appStateAwsSendSensorData"
    /\ pc = "mh_recv"
    /\ ~resolveAwsServer /\ ~initShadow

\* C7: main() sets appStateStartup, and appStateStartup() of a device that
\* is not commissioned sets appStateCommissionDevice; while the control task
\* is blocked there on rx_cert_sem, shellSetCert() of a certificate longer
\* than the maximum returns APP_ERR_CRED_TOO_LARGE and cannot change
\* devCertSet, devKeySet, commissioned, allowCommissioning, rx_cert_sem or
\* appState.
C7_ScenarioAOversizedCert ==
    /\ [][(main("none") => appState' = "appStateStartup")
          /\ ((~commissioned
               /\ \E loadRc \in SaveResults : appStateStartup(loadRc))
              => appState' = "appStateCommissionDevice")]_vars
    /\ [](pc = "cd_take" /\ rx_cert_sem = 0
             /\ appState = "appStateCommissionDevice"
          => \A saveRc \in SaveResults :
               /\ shellSetCertRc("CREDENTIAL_CERT", CredMaxLength + 1, saveRc)
                      = APP_ERR_CRED_TOO_LARGE
               /\ ~ENABLED (/\ shellSetCert("CREDENTIAL_CERT",
                                            CredMaxLength + 1, saveRc)
                            /\ <<devCertSet, devKeySet, commissioned,
                                 allowCommissioning, rx_cert_sem, appState>>'
                               # <<devCertSet, devKeySet, commissioned,
                                    allowCommissioning, rx_cert_sem,
                                    appState>>))

\* A device booted without the commissioned flag waits in
\* appStateCommissionDevice, where an oversized certificate is refused.
C7_Witness ==
    /\ pc = "cd_take" /\ rx_cert_sem = 0
    /\ appState = "appStateCommissionDevice"
    /\ ~commissioned /\ ~nvCommissioned
    /\ ~devCertSet /\ ~devKeySet
    /\ shellSetCertRc("CREDENTIAL_CERT", CredMaxLength + 1, 0)
           = APP_ERR_CRED_TOO_LARGE

\* C8 as stated: between two calls of decommission(), or between boot and
\* the first, at most one certificate submission and at most one key
\* submission succeed.
C8_OneAcceptancePerKind ==
    certAccepts <= 1 /\ keyAccepts <= 1

\* C8 amended: a submission succeeds only while appReady and
\* allowCommissioning are true, whether or not the same kind was accepted
\* before; while allowCommissioning is false (from set_commissioned() until
\* decommission() or appStateCommissionDevice() sets it again) every
\* submission is refused with APP_ERR_COMMISSION_DISALLOWED and changes
\* nothing.
C8_AcceptanceNeedsAllowCommissioning ==
    /\ [][(certAccepts' > certAccepts \/ keyAccepts' > keyAccepts)
          => (appReady /\ allowCommissioning)]_vars
    /\ [](appReady /\ ~allowCommissioning
          => \A type \in CredentialArgs, certSize \in CredentialSizes,
                saveRc \in SaveResults :
               /\ shellSetCertRc(type, certSize, saveRc)
                      = APP_ERR_COMMISSION_DISALLOWED
               /\ ~ENABLED (shellSetCert(type, certSize, saveRc)
                            /\ vars' # vars))

\* A certificate was accepted, set_commissioned() has run since, and a
\* further submission is refused.
C8_Witness ==
    /\ certAccepts = 1
    /\ commissioned /\ ~allowCommissioning
    /\ shellSetCertRc("CREDENTIAL_CERT", CredMaxLength, 0)
           = APP_ERR_COMMISSION_DISALLOWED

\* C9 as stated: with both credentials present and the device commissioned,
\* the control task never runs appStateCommissionDevice() again.
C9_NoCommissionDeviceOnceCommissioned ==
    ~(/\ pc = "loop" /\ appState = "appStateCommissionDevice"
      /\ commissioned /\ devCertSet /\ devKeySet)

\* C9 amended: appStateLteConnectedAws() and appStateAwsConnect(), where
\* failed connects and lost connectivity end up, set
\* appStateCommissionDevice only while a credential flag is clear, that is
\* after decommission(); with both flags set only appStateStartup() sets it
\* (device not commissioned, or setAwsCredentials() failed), and
\* appStateCommissionDevice() keeps it while setAwsCredentials() fails
\* there.
C9_CommissionDeviceEntry ==
    /\ [][(appState' = "appStateCommissionDevice"
           /\ appState # "appStateCommissionDevice")
          => \/ appState = "appStateStartup"
             \/ /\ appState \in {"appStateLteConnectedAws",
                                 "appStateAwsConnect"}
                /\ ~areCertsSet]_vars
    /\ [][(appState = "appStateCommissionDevice" /\ appState' # appState)
          => \/ appState' = "appStateWaitForLte" /\ areCertsSet'
             \/ appState' = "appStateAwsDisconnect" /\ ~commissioned']_vars

\* A commissioned device with both credentials stays in appStateAwsConnect
\* after a failed connect.
C9_Witness ==
    /\ commissioned /\ devCertSet /\ devKeySet
    /\ awsStatus = "AWS_STATUS_CONNECTION_ERR"
    /\ appState = "appStateAwsConnect"
    /\ pc = "loop"

\* C10: once a certificate and a key have been accepted the device is
\* commissioned: the commissioned flag is true in memory and in NV storage
\* and allowCommissioning is false.
C10_BothAcceptedCommissions ==
    (certAccepts > 0 /\ keyAccepts > 0)
        => (commissioned /\ nvCommissioned /\ ~allowCommissioning)

\* C11: when the guard runs with more entries in cloudQ than the purge
\* threshold, the queue is empty when it returns, the count it reports is
\* the number of entries the queue held, and the queue has room for the
\* next message.
C11_GuardFlushesAll ==
    [][(cloud_fifo_monitor_isr
        /\ Len(cloudQ) > CONFIG_CLOUD_PURGE_THRESHOLD)
       => /\ cloudQ' = <<>>
          /\ flushed' = Len(cloudQ)
          /\ Len(cloudQ') < CONFIG_CLOUD_QUEUE_SIZE]_vars

\* The guard has just flushed everything that was sent.
C11_Witness ==
    /\ flushed > CONFIG_CLOUD_PURGE_THRESHOLD
    /\ cloudQ = <<>>
    /\ sinceCheck = 0
    /\ injected = flushed

\* C12 as stated: once twice the threshold of messages has been sent and
\* the guard has run after the last of them, the queue is empty and the
\* counts the guard reported add up to the number sent, under every
\* configuration.
C12_ScenarioDAllFlushed ==
    (injected = 2 * CONFIG_CLOUD_PURGE_THRESHOLD /\ sinceCheck = 0)
        => (cloudQ = <<>> /\ flushedTotal = injected)

\* C12 amended: every message sent was reported by a flush, refused by a
\* full queue or is still queued; a guard run that finds no more entries
\* than the threshold flushes nothing, so after a run at most the threshold
\* of entries is queued; and when twice the threshold (at least 2) is sent
\* within one check interval into a queue that holds them, the next run
\* flushes them all and reports their number.
C12_ScenarioDWithinCapacity ==
    /\ [](injected = flushedTotal + dropped + Len(cloudQ))
    /\ [](sinceCheck = 0 => Len(cloudQ) <= CONFIG_CLOUD_PURGE_THRESHOLD)
    /\ [][(cloud_fifo_monitor_isr
           /\ Len(cloudQ) <= CONFIG_CLOUD_PURGE_THRESHOLD)
          => UNCHANGED <<cloudQ, flushed, flushedTotal>>]_vars
    /\ [][(/\ cloud_fifo_monitor_isr
           /\ CONFIG_CLOUD_PURGE_THRESHOLD > 0
           /\ injected = 2 * CONFIG_CLOUD_PURGE_THRESHOLD
           /\ sinceCheck = injected
           /\ injected <= CONFIG_CLOUD_QUEUE_SIZE)
          => /\ cloudQ' = <<>>
             /\ flushed' = injected
             /\ flushedTotal' = injected]_vars

\* Twice the threshold was sent in one interval and flushed by one run.
C12_Witness ==
    /\ CONFIG_CLOUD_PURGE_THRESHOLD = MaxCloudPurgeThreshold
    /\ injected = 2 * CONFIG_CLOUD_PURGE_THRESHOLD
    /\ flushed = injected /\ flushedTotal = injected
    /\ cloudQ = <<>> /\ sinceCheck = 0

\* C13: in every reachable state the commissioned flag implies that both
\* credential flags are set.
C13_CommissionedImpliesCerts ==
    commissioned => (devCertSet /\ devKeySet)

\* C14: in every reachable state allowCommissioning is true only while the
\* application state is appStateCommissionDevice.
C14_AllowOnlyInCommissionDevice ==
    allowCommissioning => appState = "appStateCommissionDevice"

\* A call of decommission(): the settings-cleared event or the shell's
\* decommission command.
DecommissionCall ==
    awsSvcEvent_cleared \/ (appReady /\ shell_decommission)

\* C15: whenever the commissioned flag changes in memory, NV storage holds
\* the new value; after every set_commissioned() and decommission() the two
\* are equal, and so they are whenever the application is ready.
C15_CommissionedFlagPersisted ==
    /\ [][commissioned' # commissioned
          => nvCommissioned' = commissioned']_vars
    /\ [][(DecommissionCall
           \/ \E cert \in BOOLEAN, key \in BOOLEAN :
                 awsSvcEvent_saved(cert, key))
          => nvCommissioned' = commissioned']_vars
    /\ [](appReady => nvCommissioned = commissioned)

\* set_commissioned() has run on a device that waits in
\* appStateCommissionDevice.
C15_Witness ==
    /\ pc = "cd_take" /\ rx_cert_sem = 1
    /\ commissioned /\ nvCommissioned
    /\ ~allowCommissioning
    /\ awsStatus = "AWS_STATUS_DISCONNECTED"

\* C16: in whatever state decommission() is called, it leaves devCertSet,
\* devKeySet, commissioned and the stored flag false, allowCommissioning
\* and initShadow true, and it sends FMC_AWS_DECOMMISSION to the AWS queue.
C16_DecommissionEffects ==
    [][DecommissionCall
       => /\ ~devCertSet' /\ ~devKeySet'
          /\ ~commissioned' /\ ~nvCommissioned'
          /\ allowCommissioning' /\ initShadow'
          /\ awsQ' = Framework_Send(awsQ, "FMC_AWS_DECOMMISSION")]_vars

\* decommission() has run while the control task was in awsMsgHandler,
\* after the shadow had been published.
C16_Witness ==
    /\ pc = "mh_recv"
    /\ appState = "appStateAwsDisconnect"
    /\ awsQ = <<"FMC_AWS_DECOMMISSION">>
    /\ ~devCertSet /\ ~devKeySet /\ ~commissioned /\ ~nvCommissioned
    /\ allowCommissioning /\ initShadow

\* The variables a refused submission must leave alone.
CommissioningState ==
    <<devCertSet, devKeySet, commissioned, allowCommissioning, rx_cert_sem,
      appState>>

\* C17: shellSetCert() returns APP_ERR_NOT_READY when appReady is false,
\* else APP_ERR_COMMISSION_DISALLOWED when allowCommissioning is false, else
\* APP_ERR_UNKNOWN_CRED for a type that is neither certificate nor key; and
\* no submission that returns an error changes devCertSet, devKeySet,
\* commissioned, allowCommissioning, rx_cert_sem or appState.
C17_RejectionOrder ==
    [](\A type \in CredentialArgs, certSize \in CredentialSizes,
          saveRc \in SaveResults :
         /\ ~appReady
              => shellSetCertRc(type, certSize, saveRc) = APP_ERR_NOT_READY
         /\ (appReady /\ ~allowCommissioning)
              => shellSetCertRc(type, certSize, saveRc)
                     = APP_ERR_COMMISSION_DISALLOWED
         /\ (appReady /\ allowCommissioning /\ type \notin CREDENTIAL_TYPE)
              => shellSetCertRc(type, certSize, saveRc)
                     = APP_ERR_UNKNOWN_CRED
         /\ shellSetCertRc(type, certSize, saveRc) < 0
              => ~ENABLED (/\ shellSetCert(type, certSize, saveRc)
                           /\ CommissioningState' # CommissioningState))

\* Both checks fail before main() has set appReady: the not-ready error
\* comes first.
C17_Witness ==
    /\ ~appReady /\ ~allowCommissioning
    /\ shellSetCertRc("CREDENTIAL_OTHER", CredMaxLength + 1, EINVAL_RC)
           = APP_ERR_NOT_READY

\* C18: once main() has left through its exit label, in either
\* application, appReady is false and stays false, the state pointer is
\* unset and stays unset, and the control task takes no further step.
C18_InitFailureIsFatal ==
    /\ [](pc = "exit" => (~appReady /\ appState = "NULL"))
    /\ [](car_pc = "exit" => (~car_appReady /\ car_appState = "NULL"))
    /\ [][pc = "exit" => (pc' = "exit" /\ ~ControlStep)]_vars
    /\ [][car_pc = "exit" => (car_pc' = "exit" /\ ~car_ControlStep)]_vars
    /\ [][(pc = "boot" /\ pc' = "exit")
          => (~appReady' /\ appState' = "NULL")]_vars
    /\ [][(car_pc = "boot" /\ car_pc' = "exit")
          => (~car_appReady' /\ car_appState' = "NULL")]_vars

\* Both mains have returned through exit.
C18_Witness ==
    /\ pc = "exit" /\ ~appReady /\ appState = "NULL"
    /\ car_pc = "exit" /\ ~car_appReady /\ car_appState = "NULL"

\* The number of keep-alive messages in a queue.
KeepAlives(q) ==
    Cardinality({i \in DOMAIN q : q[i] = "FMC_AWS_KEEP_ALIVE"})

\* C19 as stated: at most one keep-alive message is pending in the AWS
\* queue in every reachable state.
C19_AtMostOneKeepAlivePending ==
    KeepAlives(awsQ) <= 1

\* C19, amended: the timer goes from stopped to running only in
\* appStateAwsInitShadow on success and in awsMsgHandler after it has
\* handled a keep-alive message; a keep-alive message enters the queue only
\* at an expiry of the running timer, one at a time, and the expiry leaves
\* the timer stopped.
C19_KeepAliveOnePerStart ==
    /\ [][(~awsKeepAliveTimer /\ awsKeepAliveTimer')
          => \/ (appStateAwsInitShadow /\ ~initShadow)
             \/ appStateAwsInitShadow_returned(TRUE)
             \/ (pMsg = "FMC_AWS_KEEP_ALIVE"
                 /\ \E ok \in BOOLEAN : awsMsgHandler_published(ok))]_vars
    /\ [][KeepAlives(awsQ') > KeepAlives(awsQ)
          => /\ awsKeepAliveTimer /\ ~awsKeepAliveTimer'
             /\ KeepAlives(awsQ') = KeepAlives(awsQ) + 1]_vars
    /\ [][(awsKeepAliveTimer /\ ~awsKeepAliveTimer')
          => awsQ' = Framework_Send(awsQ, "FMC_AWS_KEEP_ALIVE")]_vars

\* Two keep-alive messages are pending: the timer was started again, by a
\* reconnection, while the first was still queued.
C19_Witness ==
    /\ awsQ = <<"FMC_AWS_KEEP_ALIVE", "FMC_AWS_KEEP_ALIVE">>
    /\ ~awsKeepAliveTimer

\* C20: awsPublishShadowPersistentData() is called only while initShadow is
\* set; a successful publish clears initShadow and a failed one leaves it
\* set and goes to disconnect; only decommission() sets it again.
C20_ShadowOncePerCycle ==
    /\ [](pc = "is_call" => initShadow)
    /\ [][(pc # "is_call" /\ pc' = "is_call") => initShadow]_vars
    /\ [][appStateAwsInitShadow_returned(TRUE) => ~initShadow']_vars
    /\ [][appStateAwsInitShadow_returned(FALSE)
          => (initShadow' /\ appState' = "appStateAwsDisconnect")]_vars
    /\ [][(~initShadow /\ initShadow') => DecommissionCall]_vars
    /\ [][(~initShadow /\ appStateAwsInitShadow)
          => (pc' = "loop" /\ ~initShadow')]_vars

\* A later pass through appStateAwsInitShadow, after a reconnection, with
\* the shadow already published.
C20_Witness ==
    /\ pc = "loop" /\ appState = "appStateAwsInitShadow"
    /\ ~initShadow /\ commissioned
    /\ recovery = "disconnected"

\* C21: the AWS queue changes only by a send that appends one message
\* behind all queued ones, or by the consumer's receive, which removes the
\* oldest message and hands that one to awsMsgHandler; so messages leave in
\* the order they entered, for every producer.
C21_QueueIsFifo ==
    [][awsQ' # awsQ
       => \/ /\ Len(awsQ) < AwsQCapacity
             /\ \E code \in FwkMsgCode : awsQ' = Append(awsQ, code)
          \/ /\ pc = "mh_recv" /\ awsQ # <<>>
             /\ awsQ' = Tail(awsQ)
             /\ IF Head(awsQ) \in DataMsgCodes
                THEN pMsg' = Head(awsQ) /\ pc' = "mh_pub"
                ELSE pMsg' = "NULL" /\ pc' = "loop"]_vars

\* The consumer holds a keep-alive it has received, and behind it a sensor
\* message and a later keep-alive are queued.
C21_Witness ==
    /\ pc = "mh_pub" /\ pMsg = "FMC_AWS_KEEP_ALIVE"
    /\ awsQ = <<"FMC_BL654_SENSOR_EVENT", "FMC_AWS_KEEP_ALIVE">>

\* C22: the AWS queue never holds more than its capacity; while it is full
\* no producer is blocked (the timer ISR, the disconnect callback,
\* decommission() and appStateAwsDisconnect can all take their step), and
\* the only change of a full queue is the consumer's receive: a send leaves
\* the queued messages as they are and drops the new one.
C22_FullQueueDropsNewMessage ==
    /\ [](Len(awsQ) \in 0..AwsQCapacity)
    /\ [][Len(awsQ) = AwsQCapacity
          => (awsQ' = awsQ \/ (pc = "mh_recv" /\ awsQ' = Tail(awsQ)))]_vars
    /\ [](Len(awsQ) = AwsQCapacity
          => /\ awsKeepAliveTimer => ENABLED AwsKeepAliveTimerCallbackIsr
             /\ awsConn => ENABLED awsDisconnectCallback
             /\ pc \notin {"boot", "exit"} => ENABLED awsSvcEvent_cleared
             /\ (pc = "loop" /\ appState = "appStateAwsDisconnect")
                   => ENABLED appStateAwsDisconnect)

\* decommission() ran while the control task was in awsMsgHandler with a
\* full queue: its message is not among the queued ones.
C22_Witness ==
    /\ pc = "mh_pub"
    /\ ~commissioned /\ allowCommissioning
    /\ Len(awsQ) = AwsQCapacity
    /\ \A i \in DOMAIN awsQ : awsQ[i] \in DataMsgCodes

\* The edges of the specified state graph, with the first assignment made
\* by main().
SpecifiedEdges ==
    {<<"NULL", "appStateStartup">>,
     <<"appStateStartup", "appStateCommissionDevice">>,
     <<"appStateStartup", "appStateWaitForLte">>,
     <<"appStateCommissionDevice", "appStateWaitForLte">>,
     <<"appStateWaitForLte", "appStateLteConnectedAws">>,
     <<"appStateLteConnectedAws", "appStateAwsResolveServer">>,
     <<"appStateLteConnectedAws", "appStateAwsConnect">>,
     <<"appStateLteConnectedAws", "appStateCommissionDevice">>,
     <<"appStateAwsResolveServer", "appStateAwsConnect">>,
     <<"appStateAwsConnect", "appStateAwsInitShadow">>,
     <<"appStateAwsInitShadow", "appStateAwsSendSensorData">>,
     <<"appStateAwsInitShadow", "appStateAwsDisconnect">>,
     <<"appStateAwsSendSensorData", "appStateAwsDisconnect">>,
     <<"appStateAwsDisconnect", "appStateAwsConnect">>}

\* C23: every change of the application state follows an edge of the
\* specified graph, also when decommission() runs.
C23_OnlySpecifiedEdges ==
    [][appState' # appState
       => <<appState, appState'>> \in SpecifiedEdges]_vars

\* C24: appStateAwsConnect() reaches awsConnect() only after both checks
\* passed and AWS_STATUS_CONNECTING was reported; awsConnect() is not called
\* with a credential flag clear or with LTE not ready; a failed attempt
\* reports AWS_STATUS_CONNECTION_ERR and leaves the state at
\* appStateAwsConnect; a successful one reports AWS_STATUS_CONNECTED and sets
\* appStateAwsInitShadow.
C24_ConnectOnlyWhenChecked ==
    /\ [][(pc # "ac_call" /\ pc' = "ac_call")
          => /\ areCertsSet /\ lteReady
             /\ awsStatus' = "AWS_STATUS_CONNECTING"]_vars
    /\ [][(\E ok \in BOOLEAN : appStateAwsConnect_returned(ok))
          => (areCertsSet /\ lteReady)]_vars
    /\ [][appStateAwsConnect_returned(FALSE)
          => /\ awsStatus' = "AWS_STATUS_CONNECTION_ERR"
             /\ appState' = "appStateAwsConnect"]_vars
    /\ [][appStateAwsConnect_returned(TRUE)
          => /\ awsStatus' = "AWS_STATUS_CONNECTED"
             /\ appState' = "appStateAwsInitShadow"]_vars

\* C25: a pass through appStateLteConnectedAws() sets the next state from
\* areCertsSet() and resolveAwsServer alone (resolve when both are true,
\* connect with credentials and no resolution needed, commission without
\* credentials), returns to the main loop without waiting, is possible
\* whenever the state is due, and changes nothing else.
C25_LteConnectedDecision ==
    /\ [][appStateLteConnectedAws
          => /\ (areCertsSet /\ resolveAwsServer)
                   => appState' = "appStateAwsResolveServer"
             /\ (areCertsSet /\ ~resolveAwsServer)
                   => appState' = "appStateAwsConnect"
             /\ ~areCertsSet => appState' = "appStateCommissionDevice"
             /\ pc' = "loop"
             /\ UNCHANGED <<pMsg, flagVars, osVars, envVars>>]_vars
    /\ []((pc = "loop" /\ appState = "appStateLteConnectedAws")
             => ENABLED appStateLteConnectedAws)

\* appStateLteConnectedAws() has chosen the resolution of the server.
C25_Witness ==
    /\ pc = "loop" /\ appState = "appStateAwsResolveServer"
    /\ resolveAwsServer /\ areCertsSet

C27_InitShadowOutcomes ==
    /\ [][appStateAwsInitShadow_returned(FALSE)
          => /\ appState' = "appStateAwsDisconnect"
             /\ initShadow /\ initShadow'
             /\ UNCHANGED awsKeepAliveTimer]_vars
    /\ [][(appStateAwsInitShadow_returned(TRUE)
           \/ (appStateAwsInitShadow /\ ~initShadow))
          => /\ ~initShadow'
             /\ appState' = "appStateAwsSendSensorData"
             /\ awsKeepAliveTimer']_vars
    /\ [][(appState # "appStateAwsSendSensorData"
           /\ appState' = "appStateAwsSendSensorData")
          => /\ awsKeepAliveTimer' /\ pc' = "loop"
             /\ (appStateAwsInitShadow
                 \/ appStateAwsInitShadow_returned(TRUE))]_vars

\* The publish of the shadow has failed on a connected, commissioned
\* device: disconnect is next, with the shadow still to publish and the
\* timer stopped.
C27_Witness ==
    /\ pc = "loop" /\ appState = "appStateAwsDisconnect"
    /\ initShadow /\ ~awsKeepAliveTimer
    /\ awsConn /\ commissioned /\ areCertsSet
    /\ awsStatus = "AWS_STATUS_CONNECTED"

\* C28 as stated: appStateAwsDisconnect() ends the session, reports
\* AWS_STATUS_DISCONNECTED, sets appStateAwsConnect, and its
\* FMC_AWS_DISCONNECTED message is in the AWS queue afterwards.
C28_DisconnectMessageDelivered ==
    [][appStateAwsDisconnect
       => /\ ~awsConn'
          /\ awsStatus' = "AWS_STATUS_DISCONNECTED"
          /\ appState' = "appStateAwsConnect"
          /\ awsQ' = Append(awsQ, "FMC_AWS_DISCONNECTED")]_vars

\* C28, amended: appStateAwsDisconnect() ends the session, reports
\* AWS_STATUS_DISCONNECTED and sets appStateAwsConnect on every pass; its
\* FMC_AWS_DISCONNECTED message is appended behind the queued messages when
\* the AWS queue has room and is dropped, the queue unchanged, when it is
\* full.
C28_DisconnectMessageUnlessFull ==
    [][appStateAwsDisconnect
       => /\ ~awsConn'
          /\ awsStatus' = "AWS_STATUS_DISCONNECTED"
          /\ appState' = "appStateAwsConnect" /\ pc' = "loop"
          /\ Len(awsQ) < AwsQCapacity
                => awsQ' = Append(awsQ, "FMC_AWS_DISCONNECTED")
          /\ Len(awsQ) = AwsQCapacity => awsQ' = awsQ]_vars

\* appStateAwsDisconnect() has run after a failed publish that left the
\* queue full, and nothing has been received since.
C28_Witness ==
    /\ pc = "loop" /\ appState = "appStateAwsConnect"
    /\ awsStatus = "AWS_STATUS_DISCONNECTED" /\ ~awsConn
    /\ recovery = "disconnected"
    /\ behindLeft = AwsQCapacity /\ Len(awsQ) = AwsQCapacity
    /\ \A i \in DOMAIN awsQ : awsQ[i] # "FMC_AWS_DISCONNECTED"

InWaitForLte ==
    \/ pc = "loop" /\ appState = "appStateWaitForLte"
    \/ pc = "wl_take"

\* C30: while the control task is blocked in the take and LTE is ready the
\* semaphore holds a token; appStateWaitForLte() sets
\* appStateLteConnectedAws only while LTE is ready; and from every state in
\* which the task is in appStateWaitForLte with LTE ready, either LTE stops
\* being ready, or decommission() takes the state away before the function
\* has started, or appStateLteConnectedAws is set.
C30_NoLostWakeup ==
    /\ []((pc = "wl_take" /\ lteReady) => lte_ready_sem = 1)
    /\ [][((appStateWaitForLte \/ appStateWaitForLte_taken)
           /\ appState' = "appStateLteConnectedAws") => lteReady]_vars
    /\ [][(appState # "appStateLteConnectedAws"
           /\ appState' = "appStateLteConnectedAws")
          => (InWaitForLte /\ lteReady)]_vars
    /\ (InWaitForLte /\ lteReady)
          ~> \/ appState = "appStateLteConnectedAws"
             \/ ~lteReady
             \/ (pc = "loop" /\ appState = "appStateAwsDisconnect")

\* The ready event came while the task was blocked in the take, and the
\* task has gone on with the token.
C30_Witness ==
    /\ pc = "loop" /\ appState = "appStateLteConnectedAws"
    /\ lteReady /\ lte_ready_sem = 0

(***************************************************************************)
(* C31: every message awsMsgHandler() dequeues is released to the buffer   *)
(* pool exactly once before the next dequeue or the return of the handler, *)
(* after a successful publish, after a failed publish and for a sentinel;  *)
(* none is released twice and none is left unreleased.  (The Bluegrass     *)
(* handler, which may keep a message, is not compiled into this build.)    *)
(* msgsHeld counts receives less frees: it is 1 exactly between the        *)
(* receive of a data message and the return of its publish call, and 0 at  *)
(* every dequeue and whenever the handler is not running; the step after   *)
(* the publish call frees one buffer on both outcomes, and the step that   *)
(* receives a sentinel leaves none held.                                   *)
(***************************************************************************)
C31_ReleasedExactlyOnce ==
    [][/\ msgsHeld \in {0, 1}
       /\ (msgsHeld = 1) <=> (pc = "mh_pub")
       /\ (msgsHeld = 1) <=> (pMsg # "NULL")
       /\ msgsHeld' \in {0, 1}
       /\ (msgsHeld' = 1) <=> (pc' = "mh_pub")
       /\ (pc = "mh_pub" /\ pc' # "mh_pub") => msgsHeld' = msgsHeld - 1
       /\ (pc = "mh_recv" /\ awsQ' # awsQ /\ pc' = "loop") => msgsHeld' = 0
       /\ (pc = "mh_recv" /\ pc' = "mh_pub")
              => (msgsHeld' = 1 /\ pMsg' = Head(awsQ))]_vars

\* The handler has returned after a failed publish with nothing held,
\* while other messages wait in the queue.
C31_Witness ==
    /\ pc = "loop" /\ recovery = "failed"
    /\ msgsHeld = 0 /\ pMsg = "NULL"
    /\ awsQ # <<>>

\* C32: when the guard runs with no more entries in cloudQ than the purge
\* threshold (exactly that many included), it removes nothing: the queue
\* holds the same messages in the same order afterwards, and the guard
\* reports no flush.
C32_GuardLeavesQueueAtOrBelowThreshold ==
    [][(cloud_fifo_monitor_isr
        /\ Len(cloudQ) <= CONFIG_CLOUD_PURGE_THRESHOLD)
       => /\ cloudQ' = cloudQ
          /\ \A i \in 1..Len(cloudQ) : cloudQ'[i] = cloudQ[i]
          /\ flushedTotal' = flushedTotal]_vars

\* The guard has run on a queue holding exactly the threshold of messages,
\* the largest threshold tried, and all of them are still queued in the
\* order they were sent.
C32_Witness ==
    /\ CONFIG_CLOUD_PURGE_THRESHOLD = MaxCloudPurgeThreshold
    /\ Len(cloudQ) = CONFIG_CLOUD_PURGE_THRESHOLD
    /\ sinceCheck = 0 /\ injected = Len(cloudQ)
    /\ cloudQ = [i \in 1..injected |-> i]
    /\ flushedTotal = 0 /\ dropped = 0
====
